---- MODULE Spec2Model ----
(***************************************************************************)
(* Multi-agent chat: the POST /api/chat request handler, the LangGraph     *)
(* state machine it drives (router -> chat | rag | tools -> END), the      *)
(* router and chat agents and the in-memory session store.                 *)
(*                                                                         *)
(* A text is a sequence of atoms: one-character strings for free text      *)
(* (messages, gateway replies) and one atom per fixed literal of the       *)
(* source (a notice, a placeholder sentence), so that concatenation is \o  *)
(* and two texts are equal exactly when the strings are.                   *)
(***************************************************************************)
EXTENDS Integers, Sequences, FiniteSets, TLC

\* ------------------------------------------------------------------ bounds
\* total number of POST requests accepted over a run
MaxRequests == 2
\* the hours the clock runs through while the store is used directly
MaxTime == 3
\* what a client is driven through: messages sent, chunks of one reply,
\* retry timers pending at once, reconnections after one send
MaxSends == 1
MaxChunks == 2
MaxTimers == 2
MaxAttempts == 4

\* the connections that may have a request in progress at the same time
Conns == {"c1", "c2"}

\* ------------------------------------------------------------- text helpers
Space == " "

RECURSIVE TrimStart(_)
TrimStart(t) ==
  IF t = <<>> THEN <<>>
  ELSE IF Head(t) = Space THEN TrimStart(Tail(t)) ELSE t

RECURSIVE TrimEnd(_)
TrimEnd(t) ==
  IF t = <<>> THEN <<>>
  ELSE IF t[Len(t)] = Space THEN TrimEnd(SubSeq(t, 1, Len(t) - 1)) ELSE t

\* String.prototype.trim
Trim(t) == TrimEnd(TrimStart(t))

\* String.prototype.split(' '): "" gives [""], "a b" gives ["a","b"],
\* "a " gives ["a",""]
RECURSIVE SplitFrom(_, _)
SplitFrom(t, word) ==
  IF t = <<>> THEN <<word>>
  ELSE IF Head(t) = Space THEN <<word>> \o SplitFrom(Tail(t), <<>>)
  ELSE SplitFrom(Tail(t), Append(word, Head(t)))

Split(t) == SplitFrom(t, <<>>)

RECURSIVE Concat(_)
Concat(ts) == IF ts = <<>> THEN <<>> ELSE Head(ts) \o Concat(Tail(ts))

\* ------------------------------------------------------------- validation
MAX_MESSAGE_LENGTH == 10000
MIN_MESSAGE_LENGTH == 1

EscapeChar(ch) ==
  CASE ch = "<" -> <<"&", "l", "t", ";">>
    [] ch = ">" -> <<"&", "g", "t", ";">>
    [] ch = "\"" -> <<"&", "q", "u", "o", "t", ";">>
    [] ch = "'" -> <<"&", "#", "x", "2", "7", ";">>
    [] ch = "/" -> <<"&", "#", "x", "2", "F", ";">>
    [] OTHER -> <<ch>>

\* a sanitizer that passes the text through
sanitizeHtmlIdentity(t) == t

RECURSIVE sanitizeHtml(_)
sanitizeHtml(t) ==
  IF t = <<>> THEN <<>> ELSE EscapeChar(Head(t)) \o sanitizeHtml(Tail(t))

\* a raw field of the request body: absent, or a text
Absent == [present |-> FALSE, text |-> <<>>]
Given(t) == [present |-> TRUE, text |-> t]

\* !input: undefined, null and the empty string are all falsy
Falsy(f) == ~f.present \/ f.text = <<>>

validateMessage(input) ==
  IF Falsy(input)
  THEN [isValid |-> FALSE, sanitized |-> <<>>,
        error |-> "Message is required and must be a string"]
  ELSE LET trimmed == Trim(input.text) IN
    IF Len(trimmed) < MIN_MESSAGE_LENGTH
    THEN [isValid |-> FALSE, sanitized |-> <<>>, error |-> "Message cannot be empty"]
    ELSE IF Len(trimmed) > MAX_MESSAGE_LENGTH
    THEN [isValid |-> FALSE, sanitized |-> <<>>,
          error |-> "Message is too long. Maximum 10000 characters allowed"]
    ELSE LET sanitized == sanitizeHtml(trimmed) IN
      IF Len(sanitized) = 0
      THEN [isValid |-> FALSE, sanitized |-> <<>>,
            error |-> "Message contains invalid characters"]
      ELSE [isValid |-> TRUE, sanitized |-> sanitized, error |-> "none"]

\* the session ids that match the UUID pattern of validateSessionId; the
\* ids crypto.randomUUID() generates are of that form
SuppliedUuids == {"uuid-A", "uuid-B"}
GeneratedUuids == {"uuid-gen-1", "uuid-gen-2", "uuid-gen-3", "uuid-gen-4"}
uuidRegexTest(s) == s \in SuppliedUuids \cup GeneratedUuids

\* a validator that takes any id that is given
validateSessionIdAny(sessionId) ==
  IF sessionId = ""
  THEN [isValid |-> FALSE, sanitized |-> "", error |-> "Session ID is required"]
  ELSE [isValid |-> TRUE, sanitized |-> sessionId, error |-> "none"]

validateSessionId(sessionId) ==
  IF sessionId = ""
  THEN [isValid |-> FALSE, sanitized |-> "", error |-> "Session ID is required"]
  ELSE IF ~uuidRegexTest(sessionId)
  THEN [isValid |-> FALSE, sanitized |-> "", error |-> "Invalid session ID format"]
  ELSE [isValid |-> TRUE, sanitized |-> sessionId, error |-> "none"]

\* the user ids that match /^[a-zA-Z0-9_-]+$/
userIdRegexTest(u) == u \in {"bob"}

validateUserId(userId) ==
  IF userId = ""
  THEN [isValid |-> TRUE, sanitized |-> "", error |-> "none"]
  ELSE IF ~userIdRegexTest(userId)
  THEN [isValid |-> FALSE, sanitized |-> "",
        error |-> "User ID contains invalid characters"]
  ELSE [isValid |-> TRUE, sanitized |-> userId, error |-> "none"]

\* crypto.randomUUID() for the n-th accepted request: fresh on every call
randomSessionId(n) ==
  CASE n = 1 -> "uuid-gen-1" [] n = 2 -> "uuid-gen-2"
    [] n = 3 -> "uuid-gen-3" [] OTHER -> "uuid-gen-4"

\* a validation that stops at the first field that fails
validateChatRequestFirstOnly(request, n) ==
  LET messageValidation == validateMessage(request.message)
      sessionId == IF request.sessionId = "" THEN randomSessionId(n)
                   ELSE request.sessionId
      userValidation == validateUserId(request.userId)
      NoData == [message |-> <<>>, sessionId |-> "", userId |-> ""]
  IN IF ~messageValidation.isValid
     THEN [isValid |-> FALSE, errors |-> <<messageValidation.error>>,
           data |-> NoData]
     ELSE IF request.sessionId # "" /\ ~validateSessionId(sessionId).isValid
     THEN [isValid |-> FALSE, errors |-> <<validateSessionId(sessionId).error>>,
           data |-> NoData]
     ELSE IF ~userValidation.isValid
     THEN [isValid |-> FALSE, errors |-> <<userValidation.error>>,
           data |-> NoData]
     ELSE [isValid |-> TRUE, errors |-> <<>>,
           data |-> [message |-> messageValidation.sanitized,
                     sessionId |-> sessionId,
                     userId |-> userValidation.sanitized]]

\* request: [message, sessionId, userId]; "" stands for an absent id;
\* n numbers the request
validateChatRequest(request, n) ==
  LET messageValidation == validateMessage(request.message)
      e1 == IF ~messageValidation.isValid
            THEN <<messageValidation.error>> ELSE <<>>
      sessionId == IF request.sessionId = "" THEN randomSessionId(n)
                   ELSE request.sessionId
      e2 == IF request.sessionId # "" /\ ~validateSessionId(sessionId).isValid
            THEN <<validateSessionId(sessionId).error>> ELSE <<>>
      userValidation == validateUserId(request.userId)
      e3 == IF request.userId # "" /\ ~userValidation.isValid
            THEN <<userValidation.error>> ELSE <<>>
      userId == IF request.userId # "" /\ userValidation.isValid
                THEN userValidation.sanitized ELSE ""
      errors == e1 \o e2 \o e3
  IN IF Len(errors) > 0
     THEN [isValid |-> FALSE, errors |-> errors,
           data |-> [message |-> <<>>, sessionId |-> "", userId |-> ""]]
     ELSE [isValid |-> TRUE, errors |-> <<>>,
           data |-> [message |-> messageValidation.sanitized,
                     sessionId |-> sessionId, userId |-> userId]]

\* ------------------------------------------------------------ LLM gateway
\* What generateCompletion can do on the classification call: fail, or
\* return a text.  A returned text is described by what the router's
\* /\{[\s\S]*\}/ match and JSON.parse make of it: no braces at all, braces
\* that do not parse, or an object with the three fields, each of which may
\* be missing ("" / a non-number) or out of range.
NotANumber == [isNum |-> FALSE, v |-> 0]
Num(v) == [isNum |-> TRUE, v |-> v]

\* confidence is counted in tenths: 0 is 0.0, 5 is 0.5, 10 is 1.0
JsonAgents == {"", "chat", "rag", "tools", "email"}
JsonConfidences == {NotANumber, Num(-1), Num(7), Num(11)}
\* reasoning as JSON.parse gives it: missing (""), a string, or a value that
\* is no string; the literal true is truthy and has no length
JsonTrue == "json:true"
JsonReasonings == {"", "because", JsonTrue}

GatewayError == [kind |-> "error", nextAgent |-> "", confidence |-> NotANumber,
                 reasoning |-> ""]
NoJsonText == [kind |-> "nojson", nextAgent |-> "", confidence |-> NotANumber,
               reasoning |-> ""]
BadJsonText == [kind |-> "badjson", nextAgent |-> "", confidence |-> NotANumber,
                reasoning |-> ""]
JsonTexts == [kind : {"json"}, nextAgent : JsonAgents,
              confidence : JsonConfidences, reasoning : JsonReasonings]

RouterGatewayOutcomes == {GatewayError, NoJsonText, BadJsonText} \cup JsonTexts

\* What generateCompletion can do on the chat handler's call
ChatReplies == {<<"a", " ", "b">>}
ChatGatewayError == [ok |-> FALSE, text |-> <<>>]
ChatGatewayOutcomes == {ChatGatewayError} \cup [ok : {TRUE}, text : ChatReplies]

\* ------------------------------------------------------------ router agent
Agents == {"chat", "rag", "tools"}

NoDecision == [nextAgent |-> "", confidence |-> 0, reasoning |-> ""]

DefaultDecision ==
  [nextAgent |-> "chat", confidence |-> 5,
   reasoning |-> "Invalid routing decision, defaulting to chat agent"]

Threw(msg) == [threw |-> TRUE, message |-> msg, decision |-> NoDecision]
Returned(d) == [threw |-> FALSE, message |-> "", decision |-> d]

\* extractMessageContent: the content of a message object, '' when it has none
extractMessageContent(message) == message.content

\* a parse that names the chat agent whatever the response names
parseRoutingDecisionChatOnly(response) ==
  IF response.kind # "json" \/ response.nextAgent \notin {"chat", "rag", "tools"}
     \/ ~response.confidence.isNum \/ response.reasoning = ""
  THEN Threw("Failed to parse routing decision")
  ELSE Returned([nextAgent |-> "chat", confidence |-> response.confidence.v,
                 reasoning |-> response.reasoning])

\* every failure inside the try block, the format errors included, is caught
\* and rethrown as 'Failed to parse routing decision'
parseRoutingDecision(response) ==
  IF response.kind = "nojson"
  THEN Threw("Failed to parse routing decision")
  ELSE IF response.kind = "badjson"
  THEN Threw("Failed to parse routing decision")
  ELSE IF response.nextAgent = "" \/ ~response.confidence.isNum
          \/ response.reasoning = ""
  THEN Threw("Failed to parse routing decision")
  ELSE IF response.nextAgent \notin {"chat", "rag", "tools"}
  THEN Threw("Failed to parse routing decision")
  ELSE IF response.confidence.v < 0 \/ response.confidence.v > 10
  THEN Threw("Failed to parse routing decision")
  ELSE Returned([nextAgent |-> response.nextAgent,
                 confidence |-> response.confidence.v,
                 reasoning |-> response.reasoning])

\* value.length > 0: undefined > 0 is false for a value without a length
LengthPositive(value) == value # "" /\ value # JsonTrue

\* a validation that accepts whatever was parsed
isValidDecisionLax(decision) == TRUE

isValidDecision(decision) ==
  /\ decision.nextAgent # ""
  /\ decision.nextAgent \in {"chat", "rag", "tools"}
  /\ decision.confidence >= 0
  /\ decision.confidence <= 10
  /\ decision.reasoning # ""
  /\ LengthPositive(decision.reasoning)

\* getRoleFromMessage: the role field of a stored turn; a message object
\* built by new AIMessage has none and is told by its constructor
getRoleFromMessage(message) ==
  IF message.role = "AIMessage" THEN "Assistant" ELSE message.role

\* the lines `${index + 1}. ${role}: ${content}` of messages[from..upto],
\* joined by newlines
RECURSIVE HistoryLines(_, _, _)
HistoryLines(messages, from, upto) ==
  IF from > upto THEN <<>>
  ELSE <<ToString(from), ". ", getRoleFromMessage(messages[from]), ": ">>
         \o extractMessageContent(messages[from])
         \o (IF from < upto THEN <<"\n">> ELSE <<>>)
         \o HistoryLines(messages, from + 1, upto)

\* a history that is never put into the prompt
formatConversationHistoryNone(messages) == <<"No previous conversation history.">>

formatConversationHistory(messages) ==
  IF Len(messages) <= 1
  THEN <<"No previous conversation history.">>
  ELSE <<"Previous conversation:\n">> \o HistoryLines(messages, 1, Len(messages) - 1)

\* the instructions before the history and after the current message are
\* fixed texts
createRoutingPrompt(messages) ==
  <<"You are a routing agent ... decide which agent should handle it:\n\n">>
    \o formatConversationHistory(messages)
    \o <<"\n\nCurrent message: \"">>
    \o extractMessageContent(messages[Len(messages)])
    \o <<"\"\n\nAvailable agents: ... Consider conversation context when making decisions">>

\* a router that fails without asking the gateway
routeMessageNoCall(messages, gw) ==
  [r |-> Threw("Failed to route message"), called |-> FALSE]

\* messages is the conversation; gw is what the gateway does when called.
\* The result also says whether the gateway was called.
routeMessage(messages, gw) ==
  IF Len(messages) = 0
  THEN [r |-> Threw("No messages to route"), called |-> FALSE]
  ELSE IF extractMessageContent(messages[Len(messages)]) = <<>>
  THEN [r |-> Threw("No message content found"), called |-> FALSE]
  ELSE IF gw.kind = "error"
  THEN [r |-> Threw("Failed to route message"), called |-> TRUE]
  ELSE LET parsed == parseRoutingDecision(gw) IN
    IF parsed.threw
    THEN [r |-> Threw("Failed to route message"), called |-> TRUE]
    ELSE IF ~isValidDecision(parsed.decision)
    THEN [r |-> Returned(DefaultDecision), called |-> TRUE]
    ELSE [r |-> Returned(parsed.decision), called |-> TRUE]

\* -------------------------------------------------------------- chat agent
ChatThrew(msg) == [threw |-> TRUE, message |-> msg, agent |-> "", content |-> <<>>,
                   metadata |-> ""]

ChatAgent_processMessage(messages, gw) ==
  IF Len(messages) = 0
  THEN [r |-> ChatThrew("No message to process"), called |-> FALSE]
  ELSE IF extractMessageContent(messages[Len(messages)]) = <<>>
  THEN [r |-> ChatThrew("No message content found"), called |-> FALSE]
  ELSE IF ~gw.ok
  THEN [r |-> ChatThrew("Failed to process message"), called |-> TRUE]
  ELSE [r |-> [threw |-> FALSE, message |-> "", agent |-> "chat",
               content |-> gw.text, metadata |-> "processingTime"],
        called |-> TRUE]

\* ------------------------------------------------------- the state machine
EmptyContext ==
  [routingDecision |-> NoDecision, routingError |-> "", lastAgent |-> "",
   agentMetadata |-> "", chatError |-> "", ragPlaceholder |-> FALSE,
   toolsPlaceholder |-> FALSE]

\* new AIMessage(content): a message object without role or id
AIMessage(content) == [id |-> 0, role |-> "AIMessage", content |-> content]

\* a fixed sentence, word by word: the words with single spaces between them
RECURSIVE Sentence(_)
Sentence(ws) ==
  IF Len(ws) = 0 THEN <<>>
  ELSE IF Len(ws) = 1 THEN <<ws[1]>>
  ELSE <<ws[1], Space>> \o Sentence(Tail(ws))

ChatErrorText ==
  Sentence(<<"Sorry,", "I", "encountered", "an", "error", "while", "processing",
             "your", "message.", "Please", "try", "again.">>)
RagReply(content) ==
  <<"I understand you're asking about: \"">> \o content
    \o <<"\". RAG functionality will be implemented in a future update. For now, I'll provide a general response based on my training.">>
ToolsReply(content) ==
  <<"I understand you're asking me to perform an action: \"">> \o content
    \o <<"\". Tool execution functionality will be implemented in a future update. For now, I'll provide information based on my general knowledge.">>

\* GraphStateSchema: how a node's partial result is folded into the state.
\* An update carries the messages to append, nextAgent ("" when the node
\* returns none) and the node's context object.
MergeContext(x, y) ==
  [routingDecision |-> IF y.routingDecision # NoDecision THEN y.routingDecision
                       ELSE x.routingDecision,
   routingError |-> IF y.routingError # "" THEN y.routingError ELSE x.routingError,
   lastAgent |-> IF y.lastAgent # "" THEN y.lastAgent ELSE x.lastAgent,
   agentMetadata |-> IF y.agentMetadata # "" THEN y.agentMetadata
                     ELSE x.agentMetadata,
   chatError |-> IF y.chatError # "" THEN y.chatError ELSE x.chatError,
   ragPlaceholder |-> y.ragPlaceholder \/ x.ragPlaceholder,
   toolsPlaceholder |-> y.toolsPlaceholder \/ x.toolsPlaceholder]

GraphStateSchema(state, update) ==
  [messages |-> state.messages \o update.messages,
   nextAgent |-> IF update.nextAgent # "" THEN update.nextAgent ELSE state.nextAgent,
   context |-> MergeContext(state.context, update.context)]

\* a catch block that hands the message on without a target or a record
routeNodeRethrowless(state, gw) ==
  LET res == routeMessage(state.messages, gw) IN
  IF ~res.r.threw
  THEN [messages |-> <<>>, nextAgent |-> res.r.decision.nextAgent,
        context |-> [state.context EXCEPT !.routingDecision = res.r.decision]]
  ELSE [messages |-> <<>>, nextAgent |-> "", context |-> state.context]

routeNode(state, gw) ==
  LET res == routeMessage(state.messages, gw) IN
  IF ~res.r.threw
  THEN [messages |-> <<>>, nextAgent |-> res.r.decision.nextAgent,
        context |-> [state.context EXCEPT !.routingDecision = res.r.decision]]
  ELSE [messages |-> <<>>, nextAgent |-> "chat",
        context |-> [state.context EXCEPT
                       !.routingError = "Error: " \o res.r.message]]

\* a catch block that returns no message
chatNodeNoApology(state, gw) ==
  LET res == ChatAgent_processMessage(state.messages, gw) IN
  IF ~res.r.threw
  THEN [messages |-> <<AIMessage(res.r.content)>>, nextAgent |-> "",
        context |-> [state.context EXCEPT !.lastAgent = "chat",
                                          !.agentMetadata = res.r.metadata]]
  ELSE [messages |-> <<>>, nextAgent |-> "",
        context |-> [state.context EXCEPT !.lastAgent = "chat",
                       !.chatError = "Error: " \o res.r.message]]

chatNode(state, gw) ==
  LET res == ChatAgent_processMessage(state.messages, gw) IN
  IF ~res.r.threw
  THEN [messages |-> <<AIMessage(res.r.content)>>, nextAgent |-> "",
        context |-> [state.context EXCEPT !.lastAgent = "chat",
                                          !.agentMetadata = res.r.metadata]]
  ELSE [messages |-> <<AIMessage(ChatErrorText)>>, nextAgent |-> "",
        context |-> [state.context EXCEPT !.lastAgent = "chat",
                       !.chatError = "Error: " \o res.r.message]]

\* state.messages[length - 1] of an empty array is undefined, whose
\* String() is the text "undefined"
LastContent(messages) ==
  IF Len(messages) = 0 THEN <<"undefined">> ELSE messages[Len(messages)].content

ragNode(state) ==
  [messages |-> <<AIMessage(RagReply(LastContent(state.messages)))>>,
   nextAgent |-> "",
   context |-> [state.context EXCEPT !.lastAgent = "rag",
                                     !.ragPlaceholder = TRUE]]

toolsNode(state) ==
  [messages |-> <<AIMessage(ToolsReply(LastContent(state.messages)))>>,
   nextAgent |-> "",
   context |-> [state.context EXCEPT !.lastAgent = "tools",
                                     !.toolsPlaceholder = TRUE]]

routeDecision(state) == IF state.nextAgent # "" THEN state.nextAgent ELSE "chat"

\* buildGraph: the entry point, the conditional edges out of the router and
\* the edges of the specialist nodes
EntryPoint == "router"
END == "__end__"

\* the specialist nodes wired back to the router
buildGraphBackToRouter(node, state) ==
  CASE node = "router" -> routeDecision(state)
    [] node = "chat" -> "router"
    [] node = "rag" -> "router"
    [] node = "tools" -> "router"
    [] OTHER -> END

buildGraph(node, state) ==
  CASE node = "router" -> routeDecision(state)
    [] node = "chat" -> END
    [] node = "rag" -> END
    [] node = "tools" -> END
    [] OTHER -> END

\* ---------------------------------------------------------- session store
NoSession == [exists |-> FALSE, messages |-> <<>>, sessionId |-> "",
              userId |-> "", context |-> EmptyContext]

\* a conversion that keeps the latest turn only
messagesToAgentStateLatest(messages, sessionId, userId) ==
  [exists |-> TRUE,
   messages |-> IF messages = <<>> THEN <<>> ELSE <<messages[Len(messages)]>>,
   sessionId |-> sessionId, userId |-> userId, context |-> EmptyContext]

messagesToAgentState(messages, sessionId, userId) ==
  [exists |-> TRUE, messages |-> messages, sessionId |-> sessionId,
   userId |-> userId, context |-> EmptyContext]

\* the stored history left behind
agentStateToMessagesEmpty(state) == <<>>

agentStateToMessages(state) == state.messages

\* ------------------------------------------------------------------ state
SessionIds == SuppliedUuids \cup GeneratedUuids

VARIABLES
  store,     \* inMemorySessions: session id -> stored AgentState (or none)
  writer,    \* history: the number of the request whose save wrote the entry
  started,   \* number of POST requests received so far
  conn,      \* per connection: the request in progress (or the last one)
  call,      \* a direct call of one agent operation: its input and its result
  now        \* Date.now(), in hours

vars == <<store, writer, started, conn, call, now>>

NoMessage == [id |-> 0, role |-> "", content |-> <<>>, agent |-> ""]

EmptyGraphState == [messages |-> <<>>, nextAgent |-> "", context |-> EmptyContext]

IdleConn ==
  [pc |-> "idle", reqNo |-> 0, http |-> 0, error |-> "",
   sessionId |-> "", userId |-> "", sanitizedMessage |-> <<>>,
   existingMessages |-> <<>>, allMessages |-> <<>>,
   gstate |-> EmptyGraphState, node |-> "", visited |-> <<>>,
   events |-> <<>>, fullResponse |-> <<>>, currentAgent |-> "chat",
   words |-> <<>>, assistantMessage |-> NoMessage,
   ops |-> <<>>, dropped |-> FALSE, aborted |-> FALSE,
   saveFailed |-> FALSE, routeFailed |-> FALSE, chatFailed |-> FALSE,
   \* history, for stating properties: what the store held under the
   \* request's session id when the request loaded it, whose save that was,
   \* whose save the request's own save replaced, and whether the load failed
   storedAtLoad |-> <<>>, writerAtLoad |-> 0, overwritten |-> 0,
   loadFailed |-> FALSE,
   \* history: the classification prompt handed to the gateway
   prompt |-> <<>>]

\* no agent operation is called directly while requests are served
NoCall == [op |-> "none"]

Init ==
  /\ store = [s \in SessionIds |-> NoSession]
  /\ writer = [s \in SessionIds |-> 0]
  /\ started = 0
  /\ conn = [c \in Conns |-> IdleConn]
  /\ call = NoCall
  /\ now = 0

\* the request bodies a client may post
Body(message, sessionId, userId) ==
  [malformed |-> FALSE, message |-> message, sessionId |-> sessionId,
   userId |-> userId]

Bodies ==
  { [malformed |-> TRUE, message |-> Absent, sessionId |-> "", userId |-> ""],
    Body(Absent, "uuid-A", ""),
    Body(Given(<<" ">>), "not-a-uuid", "b@d"),
    Body(Given(<<" ", "h", "i">>), "", ""),
    Body(Given(<<"<">>), "uuid-A", "bob") }

\* errors.join(', ') || 'Invalid request': the list is never empty here, and
\* the body carries its entries in order
JoinErrors(errors) == errors

\* a wire event; messageId is 0 and error is "" on the events without them
Event(type, agent, content, messageId, error) ==
  [type |-> type, agent |-> agent, content |-> content,
   messageId |-> messageId, error |-> error]

\* controller.enqueue on a stream the consumer has cancelled throws.  In the
\* try block that lands in the catch block, whose own enqueue throws again,
\* and controller.close() in the finally block throws as well: start()
\* rejects and nothing more runs.
Abort(cn) == [cn EXCEPT !.pc = "closed", !.aborted = TRUE]

\* ---------------------------------------------------------------- actions
\* POST: request.json() and validateChatRequest.  The connections are
\* interchangeable, so a new request takes a fixed one of the free ones.
Start(c, body) ==
  /\ conn[c].pc = "idle"
  /\ c = CHOOSE d \in Conns : conn[d].pc = "idle"
  /\ started < MaxRequests
  /\ started' = started + 1
  /\ LET n == started + 1
         validation == validateChatRequest(body, n)
     IN conn' = [conn EXCEPT ![c] =
          IF body.malformed
          THEN [IdleConn EXCEPT !.pc = "responded", !.reqNo = n, !.http = 400,
                                !.error = <<"Invalid request format">>]
          ELSE IF ~validation.isValid
          THEN [IdleConn EXCEPT !.pc = "responded", !.reqNo = n, !.http = 400,
                                !.error = JoinErrors(validation.errors)]
          ELSE [IdleConn EXCEPT !.pc = "load", !.reqNo = n,
                                !.error = <<>>,
                                !.sanitizedMessage = validation.data.message,
                                !.sessionId = validation.data.sessionId,
                                !.userId = validation.data.userId]]
  /\ UNCHANGED <<store, writer>>

\* SessionManager.loadSession
loadSession(sessionId) == store[sessionId]

\* streamMessage: the first item, yielded before graph.invoke
RouterNotice == [agent |-> "router", content |-> <<"Analyzing your request...">>]

\* POST with the session loaded, and what follows without a wait: the user
\* message, the merged history, the graph's initial state, the response and,
\* in start(), the initial status event and the first pass of the for-await
\* loop, which frames the router notice of streamMessage as a chunk event.
\* The generator then waits in graph.invoke.
SessionLoaded(cn, existingState) ==
  LET userMessage == [id |-> 2 * cn.reqNo - 1, role |-> "user",
                      content |-> cn.sanitizedMessage, agent |-> ""]
      existingMessages == IF existingState.exists
                          THEN agentStateToMessages(existingState)
                          ELSE <<>>
      allMessages == existingMessages \o <<userMessage>>
      agentState == messagesToAgentState(allMessages, cn.sessionId, cn.userId)
  IN [cn EXCEPT !.pc = "invoke", !.node = EntryPoint, !.http = 200,
                !.existingMessages = existingMessages,
                !.allMessages = allMessages,
                !.gstate = [messages |-> agentState.messages,
                            nextAgent |-> "",
                            context |-> agentState.context],
                !.events = <<Event("status", "system",
                                   <<"Processing your message...">>, 0, ""),
                             Event("chunk", RouterNotice.agent,
                                   RouterNotice.content, 0, "")>>,
                !.fullResponse = RouterNotice.content,
                !.currentAgent = RouterNotice.agent]

\* a load failure taken for a session that does not exist yet
SessionLoadFailedAsNew(cn) == SessionLoaded(cn, NoSession)

\* POST with the load failed: 500 and nothing else
SessionLoadFailed(cn) ==
  [cn EXCEPT !.pc = "responded", !.http = 500,
             !.error = <<"Failed to load session">>]

\* POST: await sessionManager.loadSession(sessionId)
LoadSession(c, fails) ==
  /\ conn[c].pc = "load"
  /\ LET cn == [conn[c] EXCEPT !.ops = Append(@, "load"),
                               !.loadFailed = fails,
                               !.storedAtLoad = store[conn[c].sessionId].messages,
                               !.writerAtLoad = writer[conn[c].sessionId]]
     IN conn' = [conn EXCEPT ![c] =
          IF fails THEN SessionLoadFailed(cn)
          ELSE SessionLoaded(cn, loadSession(cn.sessionId))]
  /\ UNCHANGED <<store, writer, started>>

\* POST, body of the for-await loop: one yielded item becomes one chunk event
Chunk(cn, item) ==
  IF cn.dropped THEN Abort(cn)
  ELSE [cn EXCEPT !.currentAgent = item.agent,
                  !.fullResponse = @ \o item.content,
                  !.events = Append(@, Event("chunk", item.agent, item.content,
                                             0, ""))]

\* graph.invoke: one node runs, the schema folds its result into the state
\* and the edges name the next node
RunNode(cn, name, update) ==
  LET st == GraphStateSchema(cn.gstate, update) IN
  [cn EXCEPT !.gstate = st, !.visited = Append(@, name),
             !.node = buildGraph(name, st)]

RouteNode(c, gw) ==
  /\ conn[c].pc = "invoke"
  /\ conn[c].node = "router"
  /\ LET cn == conn[c]
         res == routeMessage(cn.gstate.messages, gw)
     IN conn' = [conn EXCEPT ![c] =
          [RunNode(cn, "router", routeNode(cn.gstate, gw)) EXCEPT
             !.ops = IF res.called THEN Append(@, "classify") ELSE @,
             !.prompt = IF res.called
                        THEN createRoutingPrompt(cn.gstate.messages) ELSE @,
             !.routeFailed = res.r.threw]]
  /\ UNCHANGED <<store, writer, started>>

ChatNode(c, gw) ==
  /\ conn[c].pc = "invoke"
  /\ conn[c].node = "chat"
  /\ LET cn == conn[c]
         res == ChatAgent_processMessage(cn.gstate.messages, gw)
     IN conn' = [conn EXCEPT ![c] =
          [RunNode(cn, "chat", chatNode(cn.gstate, gw)) EXCEPT
             !.ops = IF res.called THEN Append(@, "handle") ELSE @,
             !.chatFailed = res.r.threw]]
  /\ UNCHANGED <<store, writer, started>>

RagNode(c) ==
  /\ conn[c].pc = "invoke"
  /\ conn[c].node = "rag"
  /\ conn' = [conn EXCEPT ![c] = RunNode(@, "rag", ragNode(@.gstate))]
  /\ UNCHANGED <<store, writer, started>>

ToolsNode(c) ==
  /\ conn[c].pc = "invoke"
  /\ conn[c].node = "tools"
  /\ conn' = [conn EXCEPT ![c] = RunNode(@, "tools", toolsNode(@.gstate))]
  /\ UNCHANGED <<store, writer, started>>

\* nextAgent.charAt(0).toUpperCase() + nextAgent.slice(1)
Capitalize(agent) ==
  CASE agent = "chat" -> "Chat" [] agent = "rag" -> "Rag"
    [] agent = "tools" -> "Tools" [] OTHER -> agent

ProcessingNotice(nextAgent) ==
  [agent |-> nextAgent,
   content |-> <<Capitalize(nextAgent), " agent is processing your request...">>]

WordItem(word) == [agent |-> "chat", content |-> word \o <<Space>>]

\* streamMessage after graph.invoke has resolved: the processing notice and,
\* for the chat agent, the first word of the reply; the generator then waits
\* on its 50 ms timer
YieldProcessing(c) ==
  /\ conn[c].pc = "invoke"
  /\ conn[c].node = END
  /\ LET cn == conn[c]
         routingResult == cn.gstate
         nextAgent == IF routingResult.context.lastAgent # ""
                      THEN routingResult.context.lastAgent ELSE "chat"
         c1 == Chunk(cn, ProcessingNotice(nextAgent))
     IN conn' = [conn EXCEPT ![c] =
          IF c1.aborted THEN c1
          ELSE IF nextAgent = "chat" /\ Len(routingResult.messages) > 0
          THEN LET words == Split(LastContent(routingResult.messages))
                   c2 == Chunk(c1, WordItem(Head(words)))
               IN [c2 EXCEPT !.pc = "timer", !.words = Tail(words)]
          ELSE [c1 EXCEPT !.pc = "save"]]
  /\ UNCHANGED <<store, writer, started>>

\* streamMessage when the timer fires: the next word, or the end of the
\* generator
Timer(c) ==
  /\ conn[c].pc = "timer"
  /\ LET cn == conn[c] IN
     conn' = [conn EXCEPT ![c] =
       IF cn.words = <<>> THEN [cn EXCEPT !.pc = "save"]
       ELSE LET c1 == Chunk(cn, WordItem(Head(cn.words))) IN
            IF c1.aborted THEN c1 ELSE [c1 EXCEPT !.words = Tail(cn.words)]]
  /\ UNCHANGED <<store, writer, started>>

\* a save that appends the new exchange to what is stored
saveSessionMerging(sessionId, state) ==
  [store EXCEPT ![sessionId] =
     [state EXCEPT !.messages =
        store[sessionId].messages
          \o SubSeq(state.messages, Len(state.messages) - 1, Len(state.messages))]]

\* { ...state, updatedAt: new Date() }
stateWithTimestamps(state) ==
  [f \in DOMAIN state \cup {"updatedAt"} |->
     IF f = "updatedAt" THEN now ELSE state[f]]

\* a save that leaves an entry that is already there as it is
saveSessionCreateOnly(sessionId, state) ==
  IF store[sessionId].exists THEN store
  ELSE [store EXCEPT ![sessionId] = stateWithTimestamps(state)]

\* SessionManager.saveSession: overwrite or create
saveSession(sessionId, state) ==
  [store EXCEPT ![sessionId] = stateWithTimestamps(state)]

\* a delete that empties the whole map
deleteSessionAll(sessionId) == [s \in DOMAIN store |-> NoSession]

\* SessionManager.deleteSession
deleteSession(sessionId) == [store EXCEPT ![sessionId] = NoSession]

\* a cleanup that also takes the sessions written exactly at the cutoff
cleanupOldSessionsInclusive(maxAgeHours) ==
  [s \in DOMAIN store |->
     IF store[s].exists /\ store[s].updatedAt <= now - maxAgeHours
     THEN NoSession ELSE store[s]]

\* SessionManager.cleanupOldSessions: the scan for the entries older than
\* the cutoff and their deletion.  Date.now() is read once; the deletions
\* await nothing but the map, so no other operation falls between them.
cleanupOldSessions(maxAgeHours) ==
  LET cutoffTime == now - maxAgeHours
      sessionsToDelete ==
        {s \in DOMAIN store : store[s].exists /\ store[s].updatedAt < cutoffTime}
  IN [s \in DOMAIN store |->
        IF s \in sessionsToDelete THEN deleteSession(s)[s] ELSE store[s]]

\* a save that writes the entry and then fails
SaveSessionPartial(c, fails) ==
  /\ conn[c].pc = "save"
  /\ LET cn == conn[c]
         assistantMessage == [id |-> 2 * cn.reqNo, role |-> "assistant",
                              content |-> cn.fullResponse,
                              agent |-> cn.currentAgent]
         updatedMessages == cn.allMessages \o <<assistantMessage>>
         updatedState == messagesToAgentState(updatedMessages, cn.sessionId,
                                              cn.userId)
     IN /\ conn' = [conn EXCEPT ![c] =
             [cn EXCEPT !.pc = "saved", !.assistantMessage = assistantMessage,
                        !.saveFailed = fails, !.ops = Append(@, "save"),
                        !.overwritten = writer[cn.sessionId]]]
        /\ store' = saveSession(cn.sessionId, updatedState)
        /\ writer' = [writer EXCEPT ![cn.sessionId] = cn.reqNo]
  /\ UNCHANGED started

\* POST after the loop: the assistant message and the save
SaveSession(c, fails) ==
  /\ conn[c].pc = "save"
  /\ LET cn == conn[c]
         assistantMessage == [id |-> 2 * cn.reqNo, role |-> "assistant",
                              content |-> cn.fullResponse,
                              agent |-> cn.currentAgent]
         updatedMessages == cn.allMessages \o <<assistantMessage>>
         updatedState == messagesToAgentState(updatedMessages, cn.sessionId,
                                              cn.userId)
     IN /\ conn' = [conn EXCEPT ![c] =
             [cn EXCEPT !.pc = "saved", !.assistantMessage = assistantMessage,
                        !.saveFailed = fails, !.ops = Append(@, "save"),
                        !.overwritten = writer[cn.sessionId]]]
        /\ IF fails
           THEN UNCHANGED <<store, writer>>
           ELSE /\ store' = saveSession(cn.sessionId, updatedState)
                /\ writer' = [writer EXCEPT ![cn.sessionId] = cn.reqNo]
  /\ UNCHANGED started

ErrorEvent(cause) ==
  Event("error", "system",
        <<"Sorry, I encountered an error while processing your message.">>,
        0, cause)

\* a complete event without the turn's identifier
CompleteEventNoId(cn) ==
  Event("complete", cn.currentAgent, cn.fullResponse, 0, "")

CompleteEvent(cn) ==
  Event("complete", cn.currentAgent, cn.fullResponse, cn.assistantMessage.id, "")

\* a save failure that ends the stream without a word
EndOfStreamSilent(cn) ==
  IF cn.dropped THEN Abort(cn)
  ELSE IF cn.saveFailed THEN [cn EXCEPT !.pc = "closed"]
  ELSE [cn EXCEPT !.pc = "closed", !.events = Append(@, CompleteEvent(cn))]

\* a save whose failure is not looked at
EndOfStreamIgnoresSave(cn) ==
  IF cn.dropped THEN Abort(cn)
  ELSE [cn EXCEPT !.pc = "closed", !.events = Append(@, CompleteEvent(cn))]

\* a save failure that also turns the response into a 500
EndOfStreamStatus500(cn) ==
  IF cn.dropped THEN Abort(cn)
  ELSE IF cn.saveFailed
  THEN [cn EXCEPT !.pc = "closed", !.http = 500,
                  !.events = Append(@, ErrorEvent("Failed to save session"))]
  ELSE [cn EXCEPT !.pc = "closed", !.events = Append(@, CompleteEvent(cn))]

\* POST once the save has settled: the complete event, or from the catch
\* block the error event; then controller.close()
EndOfStream(cn) ==
  IF cn.dropped THEN Abort(cn)
  ELSE IF cn.saveFailed
  THEN [cn EXCEPT !.pc = "closed",
                  !.events = Append(@, ErrorEvent("Failed to save session"))]
  ELSE [cn EXCEPT !.pc = "closed", !.events = Append(@, CompleteEvent(cn))]

Finish(c) ==
  /\ conn[c].pc = "saved"
  /\ conn' = [conn EXCEPT ![c] = EndOfStream(@)]
  /\ UNCHANGED <<store, writer, started>>

\* the consumer goes away while the request waits for the gateway or for the
\* word timer
Drop(c) ==
  /\ \/ conn[c].pc = "invoke" /\ conn[c].node = "router"
     \/ conn[c].pc = "timer"
  /\ ~conn[c].dropped
  /\ conn' = [conn EXCEPT ![c].dropped = TRUE]
  /\ UNCHANGED <<store, writer, started>>

\* The record of a finished request is kept for one state, in which what it
\* did can be read off, and is then dropped.
Finished(c) == conn[c].pc \in {"responded", "closed"}

Release(c) ==
  /\ Finished(c)
  /\ conn' = [conn EXCEPT ![c] = IdleConn]
  /\ UNCHANGED <<store, writer, started>>

\* Between its session load and its session save a request touches nothing
\* another request can see: it calls the gateway, runs the graph and frames
\* events.  Such steps commute with every step of another connection, so it
\* loses no outcome to let a request that is in that stretch run on (its
\* consumer may still leave at any point of it) while the other connections
\* wait at their next access to the store.  The orders in which loads and
\* saves of different requests fall are all kept.
Private(c) == conn[c].pc \in {"invoke", "timer", "saved"}

Step(c) ==
    \/ \E body \in Bodies : Start(c, body)
    \/ \E fails \in BOOLEAN : LoadSession(c, fails)
    \/ \E gw \in RouterGatewayOutcomes : RouteNode(c, gw)
    \/ \E gw \in ChatGatewayOutcomes : ChatNode(c, gw)
    \/ RagNode(c)
    \/ ToolsNode(c)
    \/ YieldProcessing(c)
    \/ Timer(c)
    \/ \E fails \in BOOLEAN : SaveSession(c, fails)
    \/ Finish(c)
    \/ Drop(c)

Next ==
  \/ /\ call = NoCall
     /\ \E c \in Conns : Release(c)
     /\ UNCHANGED <<call, now>>
  \/ /\ call = NoCall
     /\ \A c \in Conns : ~Finished(c)
     /\ \E c \in Conns : (\A d \in Conns \ {c} : ~Private(d)) /\ Step(c)
     /\ UNCHANGED <<call, now>>

Spec == Init /\ [][Next]_vars

\* ------------------------------------------- the agents, called directly
\* The operations of RouterAgent, ChatAgent and the rag and tools nodes as a
\* caller (or a unit test) uses them: on a conversation of its choosing, with
\* the gateway answering as it will.
HumanTurn(content) == [id |-> 0, role |-> "user", content |-> content, agent |-> ""]
AssistantTurn(content) ==
  [id |-> 0, role |-> "assistant", content |-> content, agent |-> "chat"]

Conversations ==
  { <<>>,
    <<HumanTurn(<<>>)>>,
    <<HumanTurn(<<"h", "i">>)>>,
    <<HumanTurn(<<"q">>), AssistantTurn(<<"r">>), HumanTurn(<<"h", "i">>)>> }

Ready(messages) == [op |-> "ready", messages |-> messages]

\* the gateway's answers to a direct call: those of a served request and, in
\* addition, the confidences on the two ends of the accepted range
DirectConfidences == JsonConfidences \cup {Num(0), Num(10)}
DirectRouterOutcomes ==
  RouterGatewayOutcomes
    \cup [kind : {"json"}, nextAgent : JsonAgents,
          confidence : DirectConfidences, reasoning : JsonReasonings]

AgentInit ==
  /\ store = [s \in SessionIds |-> NoSession]
  /\ writer = [s \in SessionIds |-> 0]
  /\ started = 0
  /\ conn = [c \in Conns |-> IdleConn]
  /\ call \in {Ready(m) : m \in Conversations}
  /\ now = 0

\* routerAgent.routeMessage(state)
CallRouteMessage(gw) ==
  /\ call.op = "ready"
  /\ LET res == routeMessage(call.messages, gw) IN
     call' = [op |-> "routeMessage", messages |-> call.messages, gw |-> gw,
              called |-> res.called, threw |-> res.r.threw,
              message |-> res.r.message, decision |-> res.r.decision]
  /\ UNCHANGED <<store, writer, started, conn, now>>

\* routerAgent.parseRoutingDecision(response), on a text the gateway returned
CallParseRoutingDecision(response) ==
  /\ call.op = "ready"
  /\ response.kind # "error"
  /\ LET res == parseRoutingDecision(response) IN
     call' = [op |-> "parseRoutingDecision", messages |-> call.messages,
              gw |-> response, called |-> FALSE, threw |-> res.threw,
              message |-> res.message, decision |-> res.decision]
  /\ UNCHANGED <<store, writer, started, conn, now>>

\* chatAgent.processMessage(state)
CallChatProcessMessage(gw) ==
  /\ call.op = "ready"
  /\ LET res == ChatAgent_processMessage(call.messages, gw) IN
     call' = [op |-> "chat", messages |-> call.messages, called |-> res.called,
              threw |-> res.r.threw, message |-> res.r.message,
              reply |-> IF res.r.threw THEN <<>> ELSE <<res.r.content>>]
  /\ UNCHANGED <<store, writer, started, conn, now>>

\* the rag and tools handlers: neither can throw out of its try block
CallRagNode ==
  /\ call.op = "ready"
  /\ LET update == ragNode([EmptyGraphState EXCEPT !.messages = call.messages]) IN
     call' = [op |-> "rag", messages |-> call.messages, called |-> FALSE,
              threw |-> FALSE, message |-> "",
              reply |-> <<update.messages[1].content>>]
  /\ UNCHANGED <<store, writer, started, conn, now>>

CallToolsNode ==
  /\ call.op = "ready"
  /\ LET update == toolsNode([EmptyGraphState EXCEPT !.messages = call.messages]) IN
     call' = [op |-> "tools", messages |-> call.messages, called |-> FALSE,
              threw |-> FALSE, message |-> "",
              reply |-> <<update.messages[1].content>>]
  /\ UNCHANGED <<store, writer, started, conn, now>>

AgentNext ==
  \/ \E gw \in DirectRouterOutcomes : CallRouteMessage(gw)
  \/ \E response \in DirectRouterOutcomes : CallParseRoutingDecision(response)
  \/ \E gw \in ChatGatewayOutcomes : CallChatProcessMessage(gw)
  \/ CallRagNode
  \/ CallToolsNode

AgentSpec == AgentInit /\ [][AgentNext]_vars

\* ============================================================ properties
Last(q) == q[Len(q)]
Terminal(e) == e.type \in {"complete", "error"}
Completed(c) ==
  /\ conn[c].pc = "closed"
  /\ conn[c].events # <<>>
  /\ Last(conn[c].events).type = "complete"
\* the request's user turn and the assistant turn it builds
UserTurn(c) == [id |-> 2 * conn[c].reqNo - 1, role |-> "user",
                content |-> conn[c].sanitizedMessage, agent |-> ""]
\* the request wrote the store and nothing has replaced what it wrote
HoldsLastWrite(c) ==
  /\ conn[c].pc \in {"saved", "closed"}
  /\ ~conn[c].saveFailed
  /\ writer[conn[c].sessionId] = conn[c].reqNo
\* the request never wrote the store
WroteNothing(c) == \A s \in SessionIds : writer[s] # conn[c].reqNo

\* C1: the events of a request that reached streaming are one status event,
\* then chunk events only, then, once the stream is closed towards a consumer
\* that is still there, exactly one terminal event (complete or error) in the
\* last place; no event follows a terminal one.  A stream is cut short only
\* when its consumer has gone.
C1_EventOrder ==
  \A c \in Conns :
    LET ev == conn[c].events IN
    /\ conn[c].http = 200 =>
         /\ Len(ev) >= 1
         /\ ev[1].type = "status"
         /\ \A i \in 2..Len(ev) : ev[i].type # "status"
         /\ \A i \in 1..(Len(ev) - 1) : ~Terminal(ev[i])
         /\ \A i \in 2..(Len(ev) - 1) : ev[i].type = "chunk"
         /\ conn[c].pc # "closed" => ~Terminal(Last(ev))
         /\ (conn[c].pc = "closed" /\ ~conn[c].aborted) => Terminal(Last(ev))
         /\ conn[c].aborted => conn[c].dropped
    /\ conn[c].http # 200 => ev = <<>>

C1_Witness ==
  \E c \in Conns :
    /\ conn[c].pc = "closed" /\ ~conn[c].aborted
    /\ conn[c].routeFailed /\ conn[c].chatFailed /\ conn[c].saveFailed
    /\ Len(conn[c].events) >= 5

\* C2: once a request has saved, the session holds the turns H that were
\* stored when the request loaded it, unchanged and in order, followed by
\* the request's user turn and then one assistant turn.
C2_AppendsOneExchange ==
  \A c \in Conns :
    HoldsLastWrite(c) =>
      LET H == conn[c].storedAtLoad
          m == store[conn[c].sessionId].messages
      IN /\ store[conn[c].sessionId].exists
         /\ Len(m) = Len(H) + 2
         /\ SubSeq(m, 1, Len(H)) = H
         /\ m[Len(H) + 1] = UserTurn(c)
         /\ m[Len(H) + 2].role = "assistant"
         /\ m[Len(H) + 2] = conn[c].assistantMessage
         /\ m[Len(H) + 2].id = 2 * conn[c].reqNo

C2_Witness ==
  \E c \in Conns :
    /\ Completed(c) /\ HoldsLastWrite(c)
    /\ Len(conn[c].storedAtLoad) = 2

\* C3 (as claimed): the content of the complete event is the reply text of
\* the dispatched handler, the text of the assistant turn the graph
\* appended, and is not empty.
C3_CompleteCarriesReply ==
  \A c \in Conns :
    Completed(c) =>
      /\ Last(conn[c].events).content = LastContent(conn[c].gstate.messages)
      /\ Last(conn[c].events).content # <<>>

C5_RoutingFailureFallsBackToChat ==
  \A c \in Conns :
    conn[c].routeFailed =>
      /\ conn[c].gstate.context.routingError # ""
      /\ conn[c].gstate.context.routingDecision = NoDecision
      /\ conn[c].gstate.nextAgent = "chat"
      /\ conn[c].node \in {"chat", END}
      /\ \A i \in 1..Len(conn[c].visited) : conn[c].visited[i] \notin {"rag", "tools"}
      /\ conn[c].node = END =>
           /\ conn[c].visited = <<"router", "chat">>
           /\ Len(conn[c].gstate.messages) = Len(conn[c].allMessages) + 1
           /\ Last(conn[c].gstate.messages).role = "AIMessage"

C5_Witness ==
  \E c \in Conns :
    /\ conn[c].routeFailed /\ ~conn[c].chatFailed
    /\ conn[c].visited = <<"router", "chat">>
    /\ Completed(c)

\* C6: a request answered 400, and a request whose session load failed,
\* which is answered 500 'Failed to load session', called the gateway for
\* nothing, wrote nothing to the store and emitted no event.
C6_FailFast ==
  \A c \in Conns :
    /\ conn[c].loadFailed =>
         /\ conn[c].pc = "responded"
         /\ conn[c].http = 500
         /\ conn[c].error = <<"Failed to load session">>
    /\ (conn[c].pc = "responded" \/ conn[c].http \in {400, 500}) =>
         /\ conn[c].http \in {400, 500}
         /\ conn[c].pc = "responded"
         /\ conn[c].events = <<>>
         /\ \A i \in 1..Len(conn[c].ops) : conn[c].ops[i] = "load"
         /\ conn[c].visited = <<>>
         /\ WroteNothing(c)

C6_Witness ==
  \E c \in Conns :
    /\ conn[c].loadFailed
    /\ store[conn[c].sessionId].exists

\* C7: when another request saved the session between this request's load
\* and its save, the session holds, after this request's save, what this
\* request loaded followed by its own two turns; the turns of the request
\* whose save it replaced are gone.
C7_LastWriteWins ==
  \A c \in Conns :
    (HoldsLastWrite(c) /\ conn[c].overwritten # conn[c].writerAtLoad) =>
      LET m == store[conn[c].sessionId].messages
          w == conn[c].overwritten
      IN /\ m = conn[c].storedAtLoad
                  \o <<UserTurn(c), conn[c].assistantMessage>>
         /\ \A i \in 1..Len(m) : m[i].id \notin {2 * w - 1, 2 * w}

C7_Witness ==
  \E c \in Conns :
    /\ Completed(c) /\ HoldsLastWrite(c)
    /\ conn[c].overwritten # conn[c].writerAtLoad

\* C8 (as claimed): a request whose consumer dropped the connection before
\* the complete event does not write the session store.
C8_AbandonedRequestWritesNothing ==
  \A c \in Conns : conn[c].dropped => WroteNothing(c)

\* C9: a failed save ends the stream with an error event (towards a consumer
\* that is still there), and a complete event is emitted only after the
\* request's save has succeeded: unless a later save has replaced it, the
\* store then ends with the request's user and assistant turns.
C9_SaveFailureReported ==
  \A c \in Conns :
    /\ (conn[c].pc = "closed" /\ conn[c].saveFailed /\ ~conn[c].aborted) =>
         /\ Last(conn[c].events).type = "error"
         /\ \A i \in 1..Len(conn[c].events) : conn[c].events[i].type # "complete"
    /\ Completed(c) =>
         /\ ~conn[c].saveFailed
         /\ Len(conn[c].ops) > 0 /\ Last(conn[c].ops) = "save"
         /\ HoldsLastWrite(c) =>
              LET m == store[conn[c].sessionId].messages IN
              /\ Len(m) >= 2
              /\ m[Len(m) - 1] = UserTurn(c)
              /\ m[Len(m)] = conn[c].assistantMessage

C9_Witness ==
  \E c \in Conns :
    /\ conn[c].pc = "closed" /\ conn[c].saveFailed /\ ~conn[c].aborted
    /\ ~conn[c].routeFailed /\ ~conn[c].chatFailed

StoreKeys == {"uuid-A", "uuid-B"}
StoreStates ==
  { messagesToAgentState(<<HumanTurn(<<"h", "i">>)>>, "uuid-A", ""),
    messagesToAgentState(<<HumanTurn(<<"q">>), AssistantTurn(<<"r">>)>>,
                         "uuid-A", "bob") }
MaxAges == {0, 1, 2}

\* history: for each session the state and the time of the save that no
\* delete has followed
NeverSaved == [saved |-> FALSE, state |-> NoSession, at |-> 0]

StoreCall(op, sessionId, result, deleted, maxAgeHours, last) ==
  [op |-> op, sessionId |-> sessionId, result |-> result, deleted |-> deleted,
   maxAgeHours |-> maxAgeHours, last |-> last]

StoreInit ==
  /\ store = [s \in SessionIds |-> NoSession]
  /\ writer = [s \in SessionIds |-> 0]
  /\ started = 0
  /\ conn = [c \in Conns |-> IdleConn]
  /\ now = 0
  /\ call = StoreCall("store", "", NoSession, {}, 0,
                      [s \in SessionIds |-> NeverSaved])

StoreMode ==
  call.op \in {"store", "save", "load", "delete", "cleanup", "roundTrip"}

\* the turn sequences a caller converts to a state and back
RoundTripTurns ==
  LET u == [id |-> 1, role |-> "user", content |-> <<"h", "i">>, agent |-> ""]
      a == [id |-> 2, role |-> "assistant", content |-> <<"r">>, agent |-> "chat"]
  IN { <<>>, <<u>>, <<u, a>>, <<a, u>>, <<u, a, u>> }

CallSaveSession(sessionId, state) ==
  /\ StoreMode
  /\ store' = saveSession(sessionId, state)
  /\ call' = StoreCall("save", sessionId, NoSession, {}, 0,
                       [call.last EXCEPT ![sessionId] =
                          [saved |-> TRUE, state |-> state, at |-> now]])
  /\ UNCHANGED <<writer, started, conn, now>>

CallLoadSession(sessionId) ==
  /\ StoreMode
  /\ call' = StoreCall("load", sessionId, loadSession(sessionId), {}, 0, call.last)
  /\ UNCHANGED <<store, writer, started, conn, now>>

CallDeleteSession(sessionId) ==
  /\ StoreMode
  /\ store' = deleteSession(sessionId)
  /\ call' = StoreCall("delete", sessionId, NoSession, {}, 0,
                       [call.last EXCEPT ![sessionId] = NeverSaved])
  /\ UNCHANGED <<writer, started, conn, now>>

CallCleanupOldSessions(maxAgeHours) ==
  /\ StoreMode
  /\ store' = cleanupOldSessions(maxAgeHours)
  /\ LET deleted == {s \in SessionIds : store[s].exists /\ ~store'[s].exists} IN
     call' = StoreCall("cleanup", "", NoSession, deleted, maxAgeHours,
                       [s \in SessionIds |->
                          IF s \in deleted THEN NeverSaved ELSE call.last[s]])
  /\ UNCHANGED <<writer, started, conn, now>>

\* agentStateToMessages(messagesToAgentState(turns, sessionId, userId))
CallRoundTrip(turns, sessionId, userId) ==
  /\ StoreMode
  /\ call' = StoreCall("roundTrip", sessionId,
                       [turns |-> turns,
                        back |-> agentStateToMessages(
                                   messagesToAgentState(turns, sessionId, userId))],
                       {}, 0, call.last)
  /\ UNCHANGED <<store, writer, started, conn, now>>

\* an hour passes
Tick ==
  /\ StoreMode
  /\ now < MaxTime
  /\ now' = now + 1
  /\ UNCHANGED <<store, writer, started, conn, call>>

StoreNext ==
  \/ \E s \in StoreKeys, state \in StoreStates : CallSaveSession(s, state)
  \/ \E s \in StoreKeys : CallLoadSession(s)
  \/ \E s \in StoreKeys : CallDeleteSession(s)
  \/ \E h \in MaxAges : CallCleanupOldSessions(h)
  \/ \E turns \in RoundTripTurns, s \in StoreKeys, u \in {"", "bob"} :
       CallRoundTrip(turns, s, u)
  \/ Tick

StoreSpec == StoreInit /\ [][StoreNext]_vars

\* -------------------------------------- the validators, called directly
ScriptOnly ==
  <<"<", "s", "c", "r", "i", "p", "t", ">",
    "<", "/", "s", "c", "r", "i", "p", "t", ">">>
ValidationMessages ==
  { Absent, Given(<<>>), Given(<<" ">>), Given(<<" ", "h", "i", " ">>),
    Given(<<"<">>), Given(ScriptOnly), Given(<<"a", "&", "b">>),
    Given(<<"\"", "'", "/", ">">>),
    Given([i \in 1..(MAX_MESSAGE_LENGTH + 1) |-> "x"]) }
ValidationSessionIds == {"", "uuid-A", "uuid-B", "not-a-uuid"}
ValidationUserIds == {"", "bob", "b@d"}

ValidationInit ==
  /\ store = [s \in SessionIds |-> NoSession]
  /\ writer = [s \in SessionIds |-> 0]
  /\ started = 0
  /\ conn = [c \in Conns |-> IdleConn]
  /\ now = 0
  /\ call \in {[op |-> "request", request |-> Body(m, s, u)] :
                 m \in ValidationMessages, s \in ValidationSessionIds,
                 u \in ValidationUserIds}

ValidationCall(op, n, result) ==
  [op |-> op, request |-> call.request, n |-> n, result |-> result]

CallValidateMessage ==
  /\ call.op = "request"
  /\ call' = ValidationCall("validateMessage", 0,
                            validateMessage(call.request.message))
  /\ UNCHANGED <<store, writer, started, conn, now>>

CallValidateSessionId ==
  /\ call.op = "request"
  /\ call' = ValidationCall("validateSessionId", 0,
                            validateSessionId(call.request.sessionId))
  /\ UNCHANGED <<store, writer, started, conn, now>>

CallValidateUserId ==
  /\ call.op = "request"
  /\ call' = ValidationCall("validateUserId", 0,
                            validateUserId(call.request.userId))
  /\ UNCHANGED <<store, writer, started, conn, now>>

\* the n-th call of validateChatRequest in the process
CallValidateChatRequest(n) ==
  /\ call.op = "request"
  /\ call' = ValidationCall("validateChatRequest", n,
                            validateChatRequest(call.request, n))
  /\ UNCHANGED <<store, writer, started, conn, now>>

ValidationNext ==
  \/ CallValidateMessage
  \/ CallValidateSessionId
  \/ CallValidateUserId
  \/ \E n \in 1..MaxRequests : CallValidateChatRequest(n)

ValidationSpec == ValidationInit /\ [][ValidationNext]_vars

\* ------------------------------------------------------ the whole program
\* Requests served by the route, or the store or the validators used
\* directly.
SystemSpec ==
  /\ Init \/ StoreInit \/ ValidationInit
  /\ [][Next \/ StoreNext \/ ValidationNext]_vars

\* ------------------------------------------------------------ the client
\* useChat on top of useSSE, in a mounted component.  A handler runs to its
\* end and the component renders before the next one starts, so the state a
\* handler reads is the state the last one left; what a handler keeps from
\* the render it was created in is recorded where it is created: the
\* EventSource's handlers and a retry timer hold the retryCount of the
\* connect() that made them.
reconnect == TRUE
maxRetries == 3
retryDelay == 1000

NoSource == [present |-> FALSE, retryCount |-> 0]
\* the n-th chunk of a reply
ChunkAt(n) == CASE n = 1 -> <<"a">> [] n = 2 -> <<"b", " ">> [] OTHER -> <<"c">>
SSEMessages ==
  {[type |-> "status", content |-> <<>>, error |-> ""],
   [type |-> "complete", content |-> <<>>, error |-> ""],
   [type |-> "error", content |-> <<>>, error |-> "Failed to process message"]}
    \cup {[type |-> "chunk", content |-> ChunkAt(n), error |-> ""] :
            n \in 1..MaxChunks}
SentContents == {<<>>, <<" ">>, <<" ", "h", "i">>}

\* useState and useRef of the two hooks; sends, attempts, lastDelay,
\* received, completed, reopened and disconnected are history
Mounted ==
  [op |-> "useChat",
   messages |-> <<>>, error |-> "", lastUserMessage |-> <<>>,
   streamingMessage |-> <<>>, streamingMessageId |-> 0, nextId |-> 1,
   isConnected |-> FALSE, isStreaming |-> FALSE, sseError |-> "",
   retryCount |-> 0, eventSource |-> NoSource, open |-> 0, timers |-> {},
   sends |-> 0, attempts |-> 0, lastDelay |-> 0, received |-> <<>>,
   completed |-> FALSE, reopened |-> FALSE, disconnected |-> FALSE]


\* prev.filter(msg => msg.id !== streamingMessageIdRef.current)
WithoutStreaming(k) ==
  LET other(m) == m.id # k.streamingMessageId IN SelectSeq(k.messages, other)

\* prev.map(msg => msg.id === streamingMessageIdRef.current ? f(msg) : msg)
MapStreaming(k, content, streaming) ==
  [i \in DOMAIN k.messages |->
     IF k.messages[i].id = k.streamingMessageId
     THEN [k.messages[i] EXCEPT !.content = content, !.streaming = streaming,
                                !.completed = ~streaming]
     ELSE k.messages[i]]

\* useChat handleSSEError
handleSSEError(k, message) ==
  LET e == [k EXCEPT !.error = message] IN
  IF k.streamingMessageId # 0
  THEN [e EXCEPT !.messages = WithoutStreaming(k),
                 !.streamingMessage = <<>>, !.streamingMessageId = 0]
  ELSE e

\* useChat handleSSEMessage
handleSSEMessage(k, sseMessage) ==
  LET e == [k EXCEPT !.error = ""] IN
  CASE sseMessage.type = "status" -> e
    [] sseMessage.type = "chunk" ->
         LET created ==
               IF e.streamingMessageId = 0
               THEN [e EXCEPT !.streamingMessageId = e.nextId,
                              !.nextId = @ + 1,
                              !.messages = Append(@,
                                 [id |-> e.nextId, role |-> "assistant",
                                  content |-> <<>>, streaming |-> TRUE,
                                  completed |-> FALSE])]
               ELSE e
             appended == [created EXCEPT
                            !.streamingMessage = @ \o sseMessage.content]
         IN [appended EXCEPT
               !.messages = MapStreaming(appended, appended.streamingMessage,
                                         TRUE)]
    [] sseMessage.type = "complete" ->
         [e EXCEPT !.messages = IF e.streamingMessageId # 0
                                THEN MapStreaming(e, e.streamingMessage, FALSE)
                                ELSE @,
                   !.streamingMessage = <<>>, !.streamingMessageId = 0]
    [] OTHER ->
         LET f == [e EXCEPT !.error = IF sseMessage.error # ""
                                      THEN sseMessage.error
                                      ELSE "An error occurred"] IN
         IF f.streamingMessageId # 0
         THEN [f EXCEPT !.messages = WithoutStreaming(f),
                        !.streamingMessage = <<>>, !.streamingMessageId = 0]
         ELSE f

\* useSSE disconnect
disconnect(k) ==
  [k EXCEPT !.open = IF k.eventSource.present THEN @ - 1 ELSE @,
            !.eventSource = NoSource,
            !.timers = {t \in @ : ~t.held},
            !.isConnected = FALSE, !.isStreaming = FALSE, !.retryCount = 0]

\* useSSE connect, the function made in a render with the given retryCount.
\* new EventSource(url) throws on a URL that does not parse only, and the
\* URL is built from window.location.origin.
connect(k, retryCount) ==
  [disconnect(k) EXCEPT !.sseError = "", !.isStreaming = TRUE,
                        !.eventSource = [present |-> TRUE,
                                         retryCount |-> retryCount],
                        !.open = @ + 1]

\* eventSource.onopen
onopen(k) == [k EXCEPT !.isConnected = TRUE, !.retryCount = 0]

\* eventSource.onmessage; the data is what the route wrote with
\* JSON.stringify, so JSON.parse does not throw
onmessage(k, data) ==
  CASE data.type \in {"status", "chunk"} ->
         handleSSEMessage([k EXCEPT !.isStreaming = TRUE], data)
    [] data.type = "complete" ->
         handleSSEMessage([k EXCEPT !.isStreaming = FALSE], data)
    [] OTHER ->
         LET text == IF data.error # "" THEN data.error
                     ELSE "Unknown error occurred"
             cause == IF data.error # "" THEN data.error ELSE "Unknown error"
             e == [k EXCEPT !.isStreaming = FALSE, !.sseError = text]
         IN handleSSEMessage(handleSSEError(e, cause), data)

\* eventSource.onerror: the timer it sets replaces the one in
\* retryTimeoutRef, which stays pending
onerror(k) ==
  LET e == [k EXCEPT !.isConnected = FALSE, !.isStreaming = FALSE]
      retryCount == k.eventSource.retryCount
  IN IF reconnect /\ retryCount < maxRetries
     THEN LET newRetryCount == retryCount + 1 IN
          [e EXCEPT !.retryCount = newRetryCount,
                    !.timers = {[t EXCEPT !.held = FALSE] : t \in @}
                                 \cup {[retryCount |-> retryCount,
                                        delay |-> retryDelay * newRetryCount,
                                        held |-> TRUE]}]
     ELSE handleSSEError([e EXCEPT !.sseError = "Connection failed"],
                         "Connection failed")

\* a send that does not look at isStreaming
sendMessageUnguarded(k, content) ==
  IF Trim(content) = <<>>
  THEN [k EXCEPT !.error = "Message cannot be empty"]
  ELSE LET u == [k EXCEPT !.error = "", !.lastUserMessage = content,
                          !.nextId = @ + 1,
                          !.messages = Append(@,
                             [id |-> k.nextId, role |-> "user",
                              content |-> Trim(content), streaming |-> FALSE,
                              completed |-> FALSE])]
       IN connect(u, k.retryCount)

\* useChat sendMessage
sendMessage(k, content) ==
  IF Trim(content) = <<>>
  THEN [k EXCEPT !.error = "Message cannot be empty"]
  ELSE IF k.isStreaming
  THEN [k EXCEPT !.error = "Please wait for the current response to complete"]
  ELSE LET u == [k EXCEPT !.error = "", !.lastUserMessage = content,
                          !.nextId = @ + 1,
                          !.messages = Append(@,
                             [id |-> k.nextId, role |-> "user",
                              content |-> Trim(content), streaming |-> FALSE,
                              completed |-> FALSE])]
       IN connect(u, k.retryCount)

\* useChat clearMessages
clearMessages(k) ==
  [k EXCEPT !.messages = <<>>, !.error = "", !.streamingMessage = <<>>,
            !.streamingMessageId = 0]

ClientInit ==
  /\ store = [s \in SessionIds |-> NoSession]
  /\ writer = [s \in SessionIds |-> 0]
  /\ started = 0
  /\ conn = [c \in Conns |-> IdleConn]
  /\ now = 0
  /\ call = Mounted

\* the user sends a message; MaxSends bounds the sends made while no reply
\* is streaming
SendMessage(content) ==
  /\ call.op = "useChat"
  /\ ~call.isStreaming /\ Trim(content) # <<>> => call.sends < MaxSends
  /\ LET k == sendMessage(call, content) IN
     /\ call' = [k EXCEPT !.sends = IF k.messages # call.messages
                                    THEN @ + 1 ELSE @]
  /\ UNCHANGED <<store, writer, started, conn, now>>

OnOpen ==
  /\ call.op = "useChat"
  /\ call.eventSource.present
  /\ call' = onopen(call)
  /\ UNCHANGED <<store, writer, started, conn, now>>

\* a message event; the chunks of the reply in progress are kept as they
\* arrive
OnMessage(data) ==
  /\ call.op = "useChat"
  /\ call.eventSource.present
  /\ data.type = "chunk" =>
       /\ Len(call.received) < MaxChunks
       /\ data.content = ChunkAt(Len(call.received) + 1)
  /\ data.type = "chunk" /\ call.streamingMessageId = 0 =>
       call.nextId <= 2 * MaxSends
  /\ call' = [onmessage(call, data) EXCEPT
                !.received = IF data.type = "chunk"
                             THEN Append(@, data.content)
                             ELSE IF data.type = "status" THEN @ ELSE <<>>]
  /\ UNCHANGED <<store, writer, started, conn, now>>

\* an error event of the EventSource: the connection could not be made, or
\* it ended, as it does when the server closes the stream; the browser fires
\* it again each time its own reconnection fails
OnError ==
  /\ call.op = "useChat"
  /\ call.eventSource.present
  /\ Cardinality(call.timers) < MaxTimers
  /\ LET k == onerror(call) IN
     call' = [k EXCEPT !.received = IF k.streamingMessageId = 0 THEN <<>> ELSE @]
  /\ UNCHANGED <<store, writer, started, conn, now>>

\* a retry timer fires: connect(url, requestOptions) of the render that set it
RetryTimer(t) ==
  /\ call.op = "useChat"
  /\ t \in call.timers
  /\ call' = connect([call EXCEPT !.timers = @ \ {t}], t.retryCount)
  /\ UNCHANGED <<store, writer, started, conn, now>>

ClearMessages ==
  /\ call.op = "useChat"
  /\ call' = [clearMessages(call) EXCEPT !.received = <<>>]
  /\ UNCHANGED <<store, writer, started, conn, now>>

ClientNext ==
  \/ \E content \in SentContents : SendMessage(content)
  \/ OnOpen
  \/ \E data \in SSEMessages : OnMessage(data)
  \/ OnError
  \/ \E t \in call.timers : RetryTimer(t)
  \/ ClearMessages

ClientSpec == ClientInit /\ [][ClientNext]_vars

\* ------------------------------------------------------- useSSE by itself
\* The connection of one sent message, from connect(url) on, with what the
\* connection did kept as history.

SSEInit ==
  /\ store = [s \in SessionIds |-> NoSession]
  /\ writer = [s \in SessionIds |-> 0]
  /\ started = 0
  /\ conn = [c \in Conns |-> IdleConn]
  /\ now = 0
  /\ call = [Mounted EXCEPT !.op = "useSSE"]

\* connect(url, options) for a message that is sent
Connect ==
  /\ call.op = "useSSE"
  /\ call.sends < MaxSends
  /\ call' = [connect(call, call.retryCount) EXCEPT
                !.sends = @ + 1, !.attempts = 0, !.lastDelay = 0,
                !.completed = FALSE, !.reopened = FALSE,
                !.disconnected = FALSE]
  /\ UNCHANGED <<store, writer, started, conn, now>>

SSEOpen ==
  /\ call.op = "useSSE"
  /\ call.eventSource.present
  /\ call' = onopen(call)
  /\ UNCHANGED <<store, writer, started, conn, now>>

SSEMessage(data) ==
  /\ call.op = "useSSE"
  /\ call.eventSource.present
  /\ call' = [onmessage(call, data) EXCEPT
                !.completed = @ \/ data.type = "complete"]
  /\ UNCHANGED <<store, writer, started, conn, now>>

SSEError ==
  /\ call.op = "useSSE"
  /\ call.eventSource.present
  /\ Cardinality(call.timers) < MaxTimers
  /\ call' = onerror(call)
  /\ UNCHANGED <<store, writer, started, conn, now>>

\* a retry timer fires: one more reconnection attempt
SSERetryTimer(t) ==
  /\ call.op = "useSSE"
  /\ t \in call.timers
  /\ call.attempts < MaxAttempts
  /\ call' = [connect([call EXCEPT !.timers = @ \ {t}], t.retryCount) EXCEPT
                !.attempts = @ + 1, !.lastDelay = t.delay,
                !.reopened = @ \/ call.completed]
  /\ UNCHANGED <<store, writer, started, conn, now>>

\* disconnect(), by the caller or by the unmount of the component
SSEDisconnect ==
  /\ call.op = "useSSE"
  /\ ~call.disconnected
  /\ call' = [disconnect(call) EXCEPT !.disconnected = TRUE]
  /\ UNCHANGED <<store, writer, started, conn, now>>

SSENext ==
  \/ Connect
  \/ SSEOpen
  \/ \E data \in {m \in SSEMessages : m.type # "chunk"} : SSEMessage(data)
  \/ SSEError
  \/ \E t \in call.timers : SSERetryTimer(t)
  \/ SSEDisconnect

SSESpec == SSEInit /\ [][SSENext]_vars

\* ------------------------------------------------ claims about the agents
\* the gateway was asked and returned a text
GatewayAnswered == call.op = "routeMessage" /\ call.called /\ call.gw.kind # "error"
\* a JSON object that passes every check of the parse
WellFormed(response) ==
  /\ response.kind = "json"
  /\ response.nextAgent \in Agents
  /\ response.confidence.isNum
  /\ response.confidence.v >= 0 /\ response.confidence.v <= 10
  /\ response.reasoning \notin {"", JsonTrue}

\* C11: every decision routeMessage returns names one of chat, rag, tools,
\* has a confidence between 0 and 1 (0 and 10 tenths) and a reasoning text of
\* positive length, whatever the gateway answered.
C11_DecisionWellFormed ==
  (call.op = "routeMessage" /\ ~call.threw) =>
    /\ call.decision.nextAgent \in {"chat", "rag", "tools"}
    /\ call.decision.confidence >= 0
    /\ call.decision.confidence <= 10
    /\ call.decision.reasoning \notin {"", JsonTrue}

\* a response whose reasoning is no string passed the parse and was replaced
\* by the default decision
C11_Witness ==
  /\ call.op = "routeMessage"
  /\ ~call.threw
  /\ call.gw.kind = "json"
  /\ call.gw.reasoning = JsonTrue
  /\ call.decision = DefaultDecision

\* C12: once the gateway has answered the classification call, routeMessage
\* returns a decision and does not fail; an answer that lacks reasoning, names
\* an unknown agent or has a confidence outside [0,1] gives the default
\* decision (chat, 0.5, fallback justification).
C12_InvalidAnswerDefaults ==
  GatewayAnswered =>
    /\ ~call.threw
    /\ (call.gw.kind = "json" /\ ~WellFormed(call.gw)) =>
         call.decision = DefaultDecision

\* C13: routeMessage fails with 'Failed to route message' only when the
\* gateway call itself failed, and fails with 'Failed to parse routing
\* decision' when the gateway's answer is not JSON.
C13_OutageDistinctFromGarbage ==
  call.op = "routeMessage" =>
    /\ (call.threw /\ call.message = "Failed to route message") =>
         call.gw.kind = "error"
    /\ (call.called /\ call.gw.kind \in {"nojson", "badjson"}) =>
         (call.threw /\ call.message = "Failed to parse routing decision")

\* C14: parseRoutingDecision fails with 'Failed to parse routing decision' on
\* a text without a parsable JSON object and with 'Invalid routing decision
\* format' on well-formed JSON that lacks a required field.
C14_TwoParseFailureKinds ==
  call.op = "parseRoutingDecision" =>
    /\ call.gw.kind \in {"nojson", "badjson"} =>
         (call.threw /\ call.message = "Failed to parse routing decision")
    /\ (call.gw.kind = "json"
          /\ (call.gw.nextAgent = "" \/ ~call.gw.confidence.isNum
               \/ call.gw.reasoning = "")) =>
         (call.threw /\ call.message = "Invalid routing decision format")

\* C15: for a gateway answer that is a JSON object with nextAgent in
\* {chat, rag, tools}, a confidence in [0,1] and a non-empty string reasoning,
\* routeMessage returns a decision with exactly those three values.
C15_ValidAnswerReturnedUnchanged ==
  (GatewayAnswered /\ WellFormed(call.gw)) =>
    /\ ~call.threw
    /\ call.decision.nextAgent = call.gw.nextAgent
    /\ call.decision.confidence = call.gw.confidence.v
    /\ call.decision.reasoning = call.gw.reasoning

\* a rag decision with confidence 0 on a conversation with history
C15_Witness ==
  /\ GatewayAnswered
  /\ WellFormed(call.gw)
  /\ Len(call.messages) = 3
  /\ call.decision = [nextAgent |-> "rag", confidence |-> 0,
                      reasoning |-> "because"]

\* C16: on a conversation with zero turns routeMessage fails with 'No
\* messages to route' and each of the chat, rag and tools handlers fails with
\* 'No message to process', without a gateway call and without a reply.
C16_ZeroTurnsFail ==
  (call.op # "ready" /\ call.messages = <<>>) =>
    /\ call.op = "routeMessage" =>
         (call.threw /\ call.message = "No messages to route" /\ ~call.called)
    /\ call.op \in {"chat", "rag", "tools"} =>
         /\ call.threw
         /\ call.message = "No message to process"
         /\ ~call.called
         /\ call.reply = <<>>

\* ------------------------------------------- claims about the event stream
\* the two notices streamMessage yields around graph.invoke
Notices == {RouterNotice.content} \cup {ProcessingNotice(a).content : a \in Agents}

\* C17: the notices 'Analyzing your request...' and '<Agent> agent is
\* processing your request...' reach the client as status events, and every
\* chunk event carries a fragment of the handler's reply.
C17_NoticesAreStatusEvents ==
  \A c \in Conns : \A i \in DOMAIN conn[c].events :
    LET e == conn[c].events[i] IN
    /\ e.content \in Notices => e.type = "status"
    /\ e.type = "chunk" => e.content \notin Notices

\* the generator of streamMessage ran to its end with the consumer connected
StreamedToEnd(c) ==
  conn[c].pc \in {"save", "saved", "closed"} /\ ~conn[c].aborted
\* the chunk events after the initial status event and the two notices
ReplyChunks(c) ==
  SelectSeq(SubSeq(conn[c].events, 4, Len(conn[c].events)),
            LAMBDA e : e.type = "chunk")
RECURSIVE Contents(_)
Contents(es) == IF es = <<>> THEN <<>> ELSE <<Head(es).content>> \o Contents(Tail(es))
\* the words of a text with the space appended to each again
RECURSIVE Respaced(_)
Respaced(ws) ==
  IF ws = <<>> THEN <<>> ELSE <<Head(ws) \o <<Space>>>> \o Respaced(Tail(ws))

\* C18: whichever of chat, rag, tools was dispatched, the contents of the
\* reply chunk events in the order sent are the handler's reply split on
\* spaces, each word with the space appended again.
C18_ChunksReproduceReply ==
  \A c \in Conns :
    StreamedToEnd(c) =>
      Contents(ReplyChunks(c)) = Respaced(Split(LastContent(conn[c].gstate.messages)))

\* the first place at or after start where sub occurs in t, 0 when none
RECURSIVE FindFrom(_, _, _)
FindFrom(sub, t, start) ==
  IF start + Len(sub) - 1 > Len(t) THEN 0
  ELSE IF SubSeq(t, start, start + Len(sub) - 1) = sub THEN start
  ELSE FindFrom(sub, t, start + 1)
\* the texts occur in t one after the other, from start on
RECURSIVE InOrder(_, _, _)
InOrder(subs, t, start) ==
  IF subs = <<>> THEN TRUE
  ELSE LET at == FindFrom(Head(subs), t, start) IN
       at > 0 /\ InOrder(Tail(subs), t, at + Len(Head(subs)))
\* a stored turn as a role-labelled text
Labelled(m) == <<m.role, ": ">> \o m.content
RECURSIVE LabelledAll(_)
LabelledAll(ms) ==
  IF ms = <<>> THEN <<>> ELSE <<Labelled(Head(ms))>> \o LabelledAll(Tail(ms))

\* C19: the classification prompt of a request on a session with stored
\* turns holds the text of each stored turn under its role, user before
\* assistant as they were stored, and after them the current message.
C19_PromptCarriesHistory ==
  \A c \in Conns :
    (conn[c].prompt # <<>> /\ conn[c].existingMessages # <<>>) =>
      /\ conn[c].existingMessages[1].role = "user"
      /\ conn[c].existingMessages[2].role = "assistant"
      /\ InOrder(LabelledAll(conn[c].existingMessages)
                   \o <<<<"\n\nCurrent message: \"">> \o conn[c].sanitizedMessage>>,
                 conn[c].prompt, 1)

\* the second of two successful requests on one session has been classified
C19_Witness ==
  \E c \in Conns :
    /\ conn[c].reqNo = 2
    /\ conn[c].prompt # <<>>
    /\ conn[c].writerAtLoad = 1
    /\ Len(conn[c].existingMessages) = 2
    /\ conn[c].existingMessages[2].content # <<>>
    /\ conn[c].pc = "closed" /\ ~conn[c].aborted

\* C20: what reaches the client on a failure is a fixed generic message and
\* nothing else: the 500 body, and an error event that has its fixed
\* content and no cause beside it.
C20_NoCauseReachesClient ==
  \A c \in Conns :
    /\ conn[c].http = 500 => conn[c].error = <<"Failed to load session">>
    /\ \A i \in DOMAIN conn[c].events :
         conn[c].events[i].type = "error" =>
           /\ conn[c].events[i].content =
                <<"Sorry, I encountered an error while processing your message.">>
           /\ conn[c].events[i].error = ""

\* --------------------------------------- claims about one served request
\* the request passed validation and the session load
Streaming(c) == conn[c].pc \in {"invoke", "timer", "save", "saved", "closed"}

IsPrefix(p, q) == Len(p) <= Len(q) /\ SubSeq(q, 1, Len(p)) = p
\* the orders in which one request uses the store and the gateway
CallOrders ==
  { <<"load", "classify", "handle", "save">>, <<"load", "classify", "save">> }

\* C22: one request loads the session, then makes exactly one
\* classification call, then at most one handler call, then saves: the
\* gateway is called at most twice and the four operations follow one
\* another in that order.
C22_SequentialCalls ==
  \A c \in Conns :
    /\ \E o \in CallOrders : IsPrefix(conn[c].ops, o)
    /\ (Streaming(c) /\ conn[c].node = END) =>
         (Len(conn[c].ops) >= 2 /\ conn[c].ops[2] = "classify")
    /\ conn[c].pc = "saved" => conn[c].ops \in CallOrders

\* a request that made both gateway calls and saved
C22_Witness ==
  \E c \in Conns :
    /\ Completed(c)
    /\ conn[c].ops = <<"load", "classify", "handle", "save">>

\* C23: after a successful request the stored state carries the routing
\* context of that request: its routing decision and its last active agent.
C23_RoutingContextStored ==
  \A c \in Conns :
    (Completed(c) /\ HoldsLastWrite(c)) =>
      LET stored == store[conn[c].sessionId].context
          ran == conn[c].gstate.context
      IN /\ stored.routingDecision = ran.routingDecision
         /\ stored.lastAgent = ran.lastAgent

\* C24: when the graph has run, context.lastAgent is the agent whose node
\* appended the assistant turn and context.agentMetadata holds that
\* handler's metadata, for chat, rag and tools alike, and what the router
\* put into the context before is still there.
C24_HandlerMetadataMerged ==
  \A c \in Conns :
    (Streaming(c) /\ conn[c].node = END) =>
      LET ctx == conn[c].gstate.context IN
      /\ ctx.lastAgent = conn[c].visited[2]
      /\ ctx.agentMetadata # ""
      /\ IF conn[c].routeFailed THEN ctx.routingError # ""
         ELSE ctx.routingDecision # NoDecision

\* C25: the messageId of the complete event is the id of the assistant turn
\* the request built and saved; while that save is the latest on the
\* session, it is the id of the last stored turn.
C25_CompleteNamesSavedTurn ==
  \A c \in Conns :
    Completed(c) =>
      /\ Last(conn[c].events).messageId = conn[c].assistantMessage.id
      /\ HoldsLastWrite(c) =>
           LET m == store[conn[c].sessionId].messages IN
           /\ Last(m).role = "assistant"
           /\ Last(m).id = Last(conn[c].events).messageId

\* the second request on a session completed
C25_Witness ==
  \E c \in Conns :
    /\ Completed(c)
    /\ HoldsLastWrite(c)
    /\ conn[c].writerAtLoad = 1
    /\ Last(conn[c].events).messageId = 4
\* ------------------------------------------------- claims about the store
\* C26: loadSession(s) returns null when s was never saved or was deleted
\* after its last save, and otherwise the state passed to the most recent
\* saveSession(s, state) with updatedAt set by that save; saveSession
\* creates the entry when it is absent and overwrites it when it is present.
SameAsSaved(stored, h) ==
  /\ stored # NoSession
  /\ \A f \in DOMAIN h.state \ {"updatedAt"} : stored[f] = h.state[f]
  /\ stored.updatedAt = h.at

C26_LoadReturnsLastSave ==
  /\ call.op = "load" =>
       LET h == call.last[call.sessionId] IN
       IF h.saved THEN SameAsSaved(call.result, h)
       ELSE call.result = NoSession
  /\ call.op = "save" =>
       SameAsSaved(store[call.sessionId], call.last[call.sessionId])

\* a load that returns a state saved after the clock has moved
C26_Witness ==
  /\ call.op = "load"
  /\ call.last[call.sessionId].saved
  /\ call.last[call.sessionId].at > 0
  /\ call.result # NoSession
  /\ Len(call.result.messages) = 2

\* C27: sessions are isolated.  saveSession, deleteSession and a chat
\* request for one session id leave the stored state of every other session
\* id unchanged, and a request reads the turns stored under its own session
\* id and no others.
C27_Isolated ==
  /\ call'.op \in {"save", "delete"} =>
       \A s \in SessionIds \ {call'.sessionId} : store'[s] = store[s]
  /\ call' = NoCall =>
       \A s \in SessionIds :
         store'[s] # store[s] =>
           \E c \in Conns : /\ conn[c].pc = "save"
                            /\ conn'[c].pc = "saved"
                            /\ conn[c].sessionId = s
  /\ \A c \in Conns :
       conn[c].pc = "load" /\ conn'[c].pc = "invoke" =>
         conn'[c].existingMessages =
           IF store[conn[c].sessionId].exists
           THEN store[conn[c].sessionId].messages ELSE <<>>

C27_SessionsIsolated == [][C27_Isolated]_vars

\* a session deleted while another one is stored
C27_Witness ==
  /\ call.op = "delete"
  /\ \E s \in SessionIds \ {call.sessionId} : store[s].exists

\* C28: cleanupOldSessions(maxAgeHours) deletes exactly the sessions whose
\* updatedAt is earlier than the current time minus maxAgeHours and leaves
\* every other session unchanged; serving a chat request never removes a
\* session.
C28_Cleanup ==
  /\ call'.op = "cleanup" /\ now' = now =>
       \A s \in SessionIds :
         store'[s] = IF /\ store[s].exists
                        /\ store[s].updatedAt < now - call'.maxAgeHours
                     THEN NoSession ELSE store[s]
  /\ call' = NoCall =>
       \A s \in SessionIds : store[s].exists => store'[s].exists

C28_CleanupDeletesExactlyOld == [][C28_Cleanup]_vars

\* a cleanup that removed a session and kept one written exactly at the
\* cutoff
C28_Witness ==
  /\ call.op = "cleanup"
  /\ call.deleted # {}
  /\ \E s \in SessionIds : /\ store[s].exists
                            /\ store[s].updatedAt = now - call.maxAgeHours

\* -------------------------------------------- claims about the validation
\* C29: validateChatRequest generates a session id of the UUID form when
\* none is supplied and rejects a supplied id that does not match the UUID
\* pattern; every session id in a successful validation result, and every
\* key a request loads or saves a session under, matches the pattern.
UsesStore(c) ==
  \E i \in DOMAIN conn[c].ops : conn[c].ops[i] \in {"load", "save"}

C30_MarkupOnlyRejected ==
  call.op = "validateMessage" /\ call.request.message = Given(ScriptOnly) =>
    /\ ~call.result.isValid
    /\ call.result.error = "Message contains invalid characters"

\* C31: validateChatRequest reports every failing field and does not stop
\* at the first: the error list has one entry for each of message,
\* sessionId and userId that is invalid, and data is returned only when the
\* list is empty.
MessageErrors(request) ==
  IF validateMessage(request.message).isValid THEN <<>>
  ELSE <<validateMessage(request.message).error>>
SessionIdErrors(request) ==
  IF request.sessionId = "" \/ uuidRegexTest(request.sessionId) THEN <<>>
  ELSE <<"Invalid session ID format">>
UserIdErrors(request) ==
  IF request.userId = "" \/ userIdRegexTest(request.userId) THEN <<>>
  ELSE <<"User ID contains invalid characters">>

C31_AllErrorsReported ==
  call.op = "validateChatRequest" =>
    /\ call.result.errors = MessageErrors(call.request)
                              \o SessionIdErrors(call.request)
                              \o UserIdErrors(call.request)
    /\ call.result.isValid <=> call.result.errors = <<>>
    /\ ~call.result.isValid =>
         call.result.data = [message |-> <<>>, sessionId |-> "", userId |-> ""]
    /\ call.result.isValid => call.result.data.message # <<>>

\* a request with all three fields invalid, answered with three errors
C31_Witness ==
  /\ call.op = "validateChatRequest"
  /\ Len(call.result.errors) = 3

\* C32: a message that is non-empty after trimming, within the length
\* limit and free of < > " ' / is accepted and its sanitized output is the
\* trimmed input; the sanitized output of any accepted message contains
\* none of the five characters.
MarkupChars == {"<", ">", "\"", "'", "/"}
FreeOfMarkup(t) == \A i \in DOMAIN t : t[i] \notin MarkupChars

C33_RoundTrip ==
  call.op = "roundTrip" => call.result.back = call.result.turns

\* a round trip of three turns
C33_Witness ==
  /\ call.op = "roundTrip"
  /\ Len(call.result.turns) = 3
  /\ Len(call.result.back) = 3

\* C35: a request whose stream ends with an error event leaves the session
\* store as it would be without it, for every session id: neither its user
\* turn nor any part of its reply is stored.
EndedWithError(c) ==
  /\ conn[c].events # <<>>
  /\ Last(conn[c].events).type = "error"

C35_ErrorStoresNothing ==
  \A c \in Conns :
    EndedWithError(c) =>
      /\ \A s \in SessionIds :
           \A i \in DOMAIN store[s].messages :
             store[s].messages[i].id \notin {2 * conn[c].reqNo - 1,
                                             2 * conn[c].reqNo}
      /\ WroteNothing(c)

\* a request whose save failed, ended with an error event, on a session
\* that an earlier request has written
C35_Witness ==
  \E c \in Conns :
    /\ EndedWithError(c)
    /\ conn[c].saveFailed
    /\ store[conn[c].sessionId].exists

\* ------------------------------------------------ claims about the client
\* C34: after a connection error useSSE makes at most maxRetries
\* reconnection attempts, the n-th one after a delay of retryDelay * n, and
\* reports 'Connection failed' after the last one.
C34_BoundedRetries ==
  /\ call.op = "useSSE" => call.attempts <= maxRetries
  /\ call.op = "useSSE" /\ call.attempts > 0 =>
       call.lastDelay = retryDelay * call.attempts
  /\ call.op = "useSSE" /\ call.attempts = maxRetries
       /\ ~call.eventSource.present /\ call.timers = {} /\ ~call.disconnected
       => call.sseError = "Connection failed"

\* C36: useChat holds at most one in-progress assistant message.  The first
\* chunk after a reset creates it, each later chunk appends its content, a
\* complete event finalizes it with the concatenation of the chunks
\* received, and an error event or a connection error removes it from the
\* list; after a terminal event the streaming buffer and id are empty.
InProgress(k) == {i \in DOMAIN k.messages : k.messages[i].streaming}
NothingInProgress(k) ==
  /\ InProgress(k) = {}
  /\ k.streamingMessage = <<>>
  /\ k.streamingMessageId = 0

C36_Step ==
  /\ Cardinality(InProgress(call')) <= 1
  /\ \A i \in InProgress(call') :
       /\ call'.messages[i].id = call'.streamingMessageId
       /\ call'.messages[i].content = Concat(call'.received)
  /\ \A data \in SSEMessages :
       OnMessage(data) =>
         CASE data.type = "chunk" /\ call.streamingMessageId = 0 ->
                /\ Len(call'.messages) = Len(call.messages) + 1
                /\ Last(call'.messages).streaming
                /\ Last(call'.messages).content = data.content
           [] data.type = "chunk" /\ call.streamingMessageId # 0 ->
                /\ Len(call'.messages) = Len(call.messages)
                /\ call'.streamingMessage = call.streamingMessage \o data.content
           [] data.type = "complete" ->
                /\ NothingInProgress(call')
                /\ \A i \in InProgress(call) :
                     /\ call'.messages[i].completed
                     /\ call'.messages[i].content = Concat(call.received)
           [] data.type = "error" ->
                /\ NothingInProgress(call')
                /\ Len(call'.messages)
                     = Len(call.messages) - Cardinality(InProgress(call))
           [] OTHER -> call'.messages = call.messages
  /\ OnError =>
       /\ NothingInProgress(call')
       /\ Len(call'.messages) = Len(call.messages) - Cardinality(InProgress(call))

C36_OneMessageInProgress == [][C36_Step]_vars

\* C37: after a complete event has been received for a sent message, useSSE
\* opens no further connection for that message, also when the server then
\* closes the stream.
C37_NoConnectionAfterComplete ==
  call.op = "useSSE" => ~call.reopened

\* C38: sendMessage called while a response is streaming, or with empty or
\* whitespace-only content, adds no message and opens no connection and
\* sets an error; at most one connection of a client is open at any time.
C38_Step ==
  /\ \A content \in SentContents :
       SendMessage(content) /\ (call.isStreaming \/ Trim(content) = <<>>) =>
         /\ call'.messages = call.messages
         /\ call'.eventSource = call.eventSource
         /\ call'.open = call.open
         /\ call'.timers = call.timers
         /\ call'.error # ""
  /\ call'.op = "useChat" => call'.open <= 1

C39_DisconnectStopsRetries ==
  call.op = "useSSE" /\ call.disconnected =>
    /\ call.timers = {}
    /\ ~call.eventSource.present
    /\ ~call.isConnected
    /\ ~call.isStreaming
    /\ call.retryCount = 0

====
